---- MODULE Spec2Model ----
(***************************************************************************)
(* Model of python/ray/rllib/policy/tf_policy_template.py                  *)
(*                                                                         *)
(* build_tf_policy(name, loss_fn, ...) assembles a policy class from       *)
(* optional callbacks and a list of mixins, and attaches with_updates,     *)
(* which calls the factory again with the saved arguments.                 *)
(*                                                                         *)
(* Two specifications share the factory operators:                         *)
(*   Spec        the factory: build_tf_policy and with_updates calls over  *)
(*               a heap of caller-owned mixin lists;                       *)
(*   PolicySpec  one instance of a produced class: its constructor, step   *)
(*               by step, and then calls of its methods.                   *)
(*                                                                         *)
(* Python values are modelled as strings: "None" is None, "F1" and "F2"    *)
(* are two distinct user functions, "L1" and "L2" are references to list   *)
(* objects on the heap.  A dict is a function from keys to values.         *)
(***************************************************************************)
EXTENDS Integers, Sequences, FiniteSets, TLC

\* ------------------------------------------------------------------ bounds
MaxMixins == 2      \* longest mixins list a caller passes
MaxClasses == 3     \* classes produced in one run of the factory
MaxCalls == 2       \* method calls made on one constructed instance

\* ------------------------------------------------------------ python dicts
EmptyDict == [k \in {} |-> "None"]

\* dict(a, **b): the keys of both, b's value where both have the key
DictUpdate(a, b) ==
    [k \in (DOMAIN a) \cup (DOMAIN b) |-> IF k \in DOMAIN b THEN b[k] ELSE a[k]]

\* ------------------------------------------------ the factory's parameters
CallbackParams ==
    {"get_default_config", "postprocess_fn", "stats_fn", "update_ops_fn",
     "optimizer_fn", "gradients_fn", "grad_stats_fn",
     "extra_action_fetches_fn", "extra_action_feed_fn",
     "extra_learn_fetches_fn", "extra_learn_feed_fn", "before_init",
     "before_loss_init", "after_init", "make_action_sampler",
     "get_batch_divisibility_req"}

Params ==
    {"name", "loss_fn", "mixins", "obs_include_prev_action_reward"}
        \cup CallbackParams

\* the signature's defaults, for a call that gives name and loss_fn only
DefaultKwargs(name, loss_fn) ==
    [p \in Params |->
        CASE p = "name" -> name
          [] p = "loss_fn" -> loss_fn
          [] p = "obs_include_prev_action_reward" -> "True"
          [] OTHER -> "None"]

\* --------------------------------------------------------- class hierarchy
MixinClasses == {"M1", "M2", "M3"}

\* the methods each mixin class of the caller defines
MixinDefines(c) ==
    CASE c = "M1" -> {"optimizer", "get_weights"}
      [] c = "M2" -> {"__init__", "extra_compute_grad_fetches",
                      "get_weights", "learn_on_batch"}
      [] c = "M3" -> {"postprocess_trajectory", "learn_on_batch",
                      "get_weights"}

\* the methods the class statement of policy_cls defines
PolicyClsDefines ==
    {"__init__", "postprocess_trajectory", "optimizer", "gradients",
     "extra_compute_action_fetches", "extra_compute_action_feed_dict",
     "extra_compute_grad_fetches", "extra_compute_grad_feed_dict"}

\* the imported base classes and the methods they define
BaseMro == <<"DynamicTFPolicy", "TFPolicy", "Policy">>

BaseDefines(c) ==
    CASE c = "DynamicTFPolicy" -> {"__init__"}
      [] c = "TFPolicy" -> {"__init__", "optimizer", "gradients",
                            "extra_compute_action_fetches",
                            "extra_compute_action_feed_dict",
                            "extra_compute_grad_fetches",
                            "extra_compute_grad_feed_dict",
                            "get_weights", "learn_on_batch"}
      [] c = "Policy" -> {"__init__", "postprocess_trajectory",
                          "get_weights", "learn_on_batch"}

Defines(c) ==
    CASE c = "policy_cls" -> PolicyClsDefines
      [] c = "new_base" -> {}
      [] c \in MixinClasses -> MixinDefines(c)
      [] OTHER -> BaseDefines(c)

Methods == UNION {Defines(c) : c \in MixinClasses \cup {"policy_cls", "TFPolicy"}}

\* Python's attribute lookup: the first class of the mro that defines m
RECURSIVE Resolve(_, _)
Resolve(mro, m) ==
    IF mro = <<>> THEN "None"
    ELSE IF m \in Defines(Head(mro)) THEN Head(mro)
    ELSE Resolve(Tail(mro), m)

\* the mixin classes of an mro, in resolution order
MixinsOf(mro) == SelectSeq(mro, LAMBDA c : c \in MixinClasses)

\* ---------------------------------------------------------- the mixin fold
Front(s) == SubSeq(s, 1, Len(s) - 1)
Last(s) == s[Len(s)]

\* class new_base(mixins.pop(), base): pass   -- the mro of the new class,
\* for a mixin that is not yet among the bases
NewBaseMro(mixin, base) == <<"new_base", mixin>> \o base

\* variant: the loop takes the mixins from the front of the list (pop(0))
RECURSIVE FoldMixinsFromFront(_, _)
FoldMixinsFromFront(list, base) ==
    IF list = <<>> THEN [base |-> base, mixins |-> list]
    ELSE FoldMixinsFromFront(Tail(list), NewBaseMro(Head(list), base))

\* variant: the loop runs over a copy and leaves the caller's list alone
RECURSIVE FoldBaseOverCopy(_, _)
FoldBaseOverCopy(list, base) ==
    IF list = <<>> THEN base
    ELSE FoldBaseOverCopy(Front(list), NewBaseMro(Last(list), base))

FoldMixinsOverCopy(list, base) ==
    [base |-> FoldBaseOverCopy(list, base), mixins |-> list]

\* base = DynamicTFPolicy; while mixins: class new_base(mixins.pop(), base)
\* The loop pops the list object itself; the result is the final base and
\* what is left in the list.
RECURSIVE FoldMixins(_, _)
FoldMixins(list, base) ==
    IF list = <<>> THEN [base |-> base, mixins |-> list]
    ELSE FoldMixins(Front(list), NewBaseMro(Last(list), base))

\* ------------------------------------------------------------- the factory
ListRefs == {"L1", "L2"}

\* build_tf_policy(**kwargs) run on heap h: the class it returns and the
\* heap it leaves.  kwargs["mixins"] is "None" or a reference to a list.
build_tf_policy(kwargs, h) ==
    LET original_kwargs == kwargs
        ref == kwargs["mixins"]
        fold == IF ref = "None"
                THEN [base |-> BaseMro, mixins |-> <<>>]
                ELSE FoldMixins(h[ref], BaseMro)
    IN  [cls |-> [name |-> kwargs["name"],
                  closure |-> kwargs,
                  original_kwargs |-> original_kwargs,
                  mro |-> <<"policy_cls">> \o fold.base],
         heap |-> IF ref = "None" THEN h ELSE [h EXCEPT ![ref] = fold.mixins]]

\* policy_cls.with_updates(**overrides)
with_updates(cls, overrides, h) ==
    build_tf_policy(DictUpdate(cls.original_kwargs, overrides), h)

\* ------------------------------------------------------------------ inputs
RECURSIVE SeqsUpTo(_, _)
SeqsUpTo(S, n) ==
    IF n = 0 THEN {<<>>}
    ELSE LET shorter == SeqsUpTo(S, n - 1)
         IN  shorter \cup
             {Append(s, x) : s \in {t \in shorter : Len(t) = n - 1}, x \in S}

NoDuplicates(s) == \A i, j \in 1..Len(s) : i # j => s[i] # s[j]

\* the mixins lists a caller passes: distinct classes, at most MaxMixins
MixinLists == {s \in SeqsUpTo(MixinClasses, MaxMixins) : NoDuplicates(s)}

AllProvided(name, fn) ==
    [p \in Params |->
        CASE p = "name" -> name
          [] p = "obs_include_prev_action_reward" -> "True"
          [] p = "mixins" -> "None"
          [] OTHER -> fn]

\* the argument sets of direct build_tf_policy calls
BuildKwargs ==
    {[k EXCEPT !["mixins"] = r] :
        k \in {DefaultKwargs("PolicyA", "F1"), AllProvided("PolicyA", "F1")},
        r \in {"None", "L1"}}

OverriddenCallbacks == {"optimizer_fn"}

\* the override sets of with_updates calls
OverrideSets ==
    {EmptyDict, [p \in {"name"} |-> "PolicyB"]}
        \cup {[p \in {q} |-> v] : q \in OverriddenCallbacks, v \in {"None", "F2"}}
        \cup {[p \in {"mixins"} |-> r] : r \in {"None", "L2"}}

\* ------------------------------------------------------------------- state
VARIABLES
    heap,       \* list reference -> the list's current elements
    classes,    \* the classes produced so far, in order of production
    history,    \* per class: how it was produced (for stating the claims)
    cls,        \* PolicySpec: the class being instantiated
    pc,         \* PolicySpec: position in policy_cls.__init__
    args,       \* PolicySpec: the constructor's arguments
    config,     \* PolicySpec: the local variable config of __init__
    attrs,      \* PolicySpec: the instance's attributes
    events,     \* PolicySpec: what ran during construction, in order
    ncalls,     \* PolicySpec: method calls made so far
    last,       \* PolicySpec: the last method call and what it returned
    fetched     \* PolicySpec: what extra_compute_action_fetches returned, in order

factoryVars == <<heap, classes, history>>
policyVars == <<cls, pc, args, config, attrs, events, ncalls, last, fetched>>
vars == <<heap, classes, history, cls, pc, args, config, attrs, events,
          ncalls, last, fetched>>

NoCall == [method |-> "None", arg |-> "", ran |-> <<>>, ret |-> "None"]

PolicyIdle ==
    /\ cls = "None" /\ pc = "idle" /\ args = "None" /\ config = "None"
    /\ attrs = EmptyDict /\ events = <<>> /\ ncalls = 0 /\ last = NoCall
    /\ fetched = <<>>

Init ==
    /\ heap \in [ListRefs -> MixinLists]
    /\ Len(heap["L2"]) <= 1
    /\ classes = <<>>
    /\ history = <<>>
    /\ PolicyIdle

\* the elements of the list a mixins argument refers to
Contents(ref, h) == IF ref = "None" THEN <<>> ELSE h[ref]

\* a caller calls build_tf_policy(**kw)
Build(kw) ==
    /\ Len(classes) < MaxClasses
    /\ LET r == build_tf_policy(kw, heap)
       IN  /\ classes' = Append(classes, r.cls)
           /\ heap' = r.heap
    /\ history' = Append(history, [parent |-> 0, overrides |-> EmptyDict,
                                   passed |-> Contents(kw["mixins"], heap)])
    /\ UNCHANGED policyVars

\* a caller calls classes[i].with_updates(**o)
WithUpdates(i, o) ==
    /\ Len(classes) < MaxClasses
    /\ LET r == with_updates(classes[i], o, heap)
       IN  /\ classes' = Append(classes, r.cls)
           /\ heap' = r.heap
           /\ history' = Append(history,
                  [parent |-> i, overrides |-> o,
                   passed |-> Contents(r.cls.original_kwargs["mixins"], heap)])
    /\ UNCHANGED policyVars

Next ==
    \/ \E kw \in BuildKwargs : Build(kw)
    \/ \E i \in 1..Len(classes), o \in OverrideSets : WithUpdates(i, o)

Spec == Init /\ [][Next]_vars

\* --------------------------------------------------- the user's functions
LEARNER_STATS_KEY == "learner_stats"

\* the dict a user function returns when it is passed as the given parameter
FnDict(fn, param) ==
    CASE param = "get_default_config" ->
             IF fn = "F1" THEN ("lr" :> "default_lr" @@ "gamma" :> "default_gamma")
             ELSE ("lr" :> "default_lr")
      [] param = "extra_action_fetches_fn" ->
             IF fn = "F1" THEN ("vf_preds" :> "F1") ELSE ("action_prob" :> "F2")
      [] param = "extra_learn_fetches_fn" ->
             IF fn = "F1"
             THEN (LEARNER_STATS_KEY :> "F1_stats" @@ "td_error" :> "F1")
             ELSE ("td_error" :> "F2")
      [] OTHER -> ("placeholder" :> fn)

\* the object a user function returns for an argument
FnObject(fn, param, arg) == fn \o "." \o param \o "(" \o arg \o ")"

\* ------------------------------------------------- TFPolicy's own methods
\* TFPolicy.extra_compute_action_fetches(self): fixed when the base
\* initialisation builds the action sampler
TFPolicy_extra_compute_action_fetches(self) == self["_tf_action_fetches"]

TFPolicy_optimizer(self) == "TFPolicy.optimizer()"
TFPolicy_gradients(self, arg) == "TFPolicy.gradients(" \o arg \o ")"
TFPolicy_extra_compute_action_feed_dict(self) == EmptyDict
TFPolicy_extra_compute_grad_fetches(self) == (LEARNER_STATS_KEY :> "{}")
TFPolicy_extra_compute_grad_feed_dict(self) == EmptyDict

\* ------------------------------------------------ the methods of policy_cls
\* Each gives what the call runs, in order, and what it returns.  c is the
\* class (its closure holds the callbacks), self the instance's attributes.
\* variant: the branch without postprocess_fn returns nothing
postprocess_trajectory_NoReturn(c, self, sample_batch) ==
    LET postprocess_fn == c.closure["postprocess_fn"]
    IN  IF postprocess_fn = "None"
        THEN [ran |-> <<"policy_cls">>, ret |-> "None"]
        ELSE [ran |-> <<"policy_cls", "postprocess_fn">>,
              ret |-> FnObject(postprocess_fn, "postprocess_fn", sample_batch)]

postprocess_trajectory(c, self, sample_batch) ==
    LET postprocess_fn == c.closure["postprocess_fn"]
    IN  IF postprocess_fn = "None"
        THEN [ran |-> <<"policy_cls">>, ret |-> sample_batch]
        ELSE [ran |-> <<"policy_cls", "postprocess_fn">>,
              ret |-> FnObject(postprocess_fn, "postprocess_fn", sample_batch)]

optimizer(c, self, arg) ==
    LET optimizer_fn == c.closure["optimizer_fn"]
    IN  IF optimizer_fn # "None"
        THEN [ran |-> <<"policy_cls", "optimizer_fn">>,
              ret |-> FnObject(optimizer_fn, "optimizer_fn", "self.config")]
        ELSE [ran |-> <<"policy_cls", "TFPolicy">>,
              ret |-> TFPolicy_optimizer(self)]

gradients(c, self, arg) ==
    LET gradients_fn == c.closure["gradients_fn"]
    IN  IF gradients_fn # "None"
        THEN [ran |-> <<"policy_cls", "gradients_fn">>,
              ret |-> FnObject(gradients_fn, "gradients_fn", arg)]
        ELSE [ran |-> <<"policy_cls", "TFPolicy">>,
              ret |-> TFPolicy_gradients(self, arg)]

\* variant: the method calls extra_action_fetches_fn again on every call
extra_compute_action_fetches_Recomputes(c, self, arg) ==
    LET extra_action_fetches_fn == c.closure["extra_action_fetches_fn"]
    IN  IF extra_action_fetches_fn = "None"
        THEN [ran |-> <<"policy_cls", "TFPolicy">>,
              ret |-> TFPolicy_extra_compute_action_fetches(self)]
        ELSE [ran |-> <<"policy_cls", "TFPolicy", "extra_action_fetches_fn">>,
              ret |-> DictUpdate(TFPolicy_extra_compute_action_fetches(self),
                          FnDict(extra_action_fetches_fn, "extra_action_fetches_fn"))]

extra_compute_action_fetches(c, self, arg) ==
    [ran |-> <<"policy_cls", "TFPolicy">>,
     ret |-> DictUpdate(TFPolicy_extra_compute_action_fetches(self),
                        self["_extra_action_fetches"])]

extra_compute_action_feed_dict(c, self, arg) ==
    LET extra_action_feed_fn == c.closure["extra_action_feed_fn"]
    IN  IF extra_action_feed_fn # "None"
        THEN [ran |-> <<"policy_cls", "extra_action_feed_fn">>,
              ret |-> FnDict(extra_action_feed_fn, "extra_action_feed_fn")]
        ELSE [ran |-> <<"policy_cls", "TFPolicy">>,
              ret |-> TFPolicy_extra_compute_action_feed_dict(self)]

\* variant: the learner stats key is not added
extra_compute_grad_fetches_NoStatsKey(c, self, arg) ==
    LET extra_learn_fetches_fn == c.closure["extra_learn_fetches_fn"]
    IN  IF extra_learn_fetches_fn # "None"
        THEN [ran |-> <<"policy_cls", "extra_learn_fetches_fn">>,
              ret |-> FnDict(extra_learn_fetches_fn, "extra_learn_fetches_fn")]
        ELSE [ran |-> <<"policy_cls", "TFPolicy">>,
              ret |-> TFPolicy_extra_compute_grad_fetches(self)]

extra_compute_grad_fetches(c, self, arg) ==
    LET extra_learn_fetches_fn == c.closure["extra_learn_fetches_fn"]
    IN  IF extra_learn_fetches_fn # "None"
        THEN [ran |-> <<"policy_cls", "extra_learn_fetches_fn">>,
              ret |-> DictUpdate((LEARNER_STATS_KEY :> "{}"),
                          FnDict(extra_learn_fetches_fn, "extra_learn_fetches_fn"))]
        ELSE [ran |-> <<"policy_cls", "TFPolicy">>,
              ret |-> TFPolicy_extra_compute_grad_fetches(self)]

extra_compute_grad_feed_dict(c, self, arg) ==
    LET extra_learn_feed_fn == c.closure["extra_learn_feed_fn"]
    IN  IF extra_learn_feed_fn # "None"
        THEN [ran |-> <<"policy_cls", "extra_learn_feed_fn">>,
              ret |-> FnDict(extra_learn_feed_fn, "extra_learn_feed_fn")]
        ELSE [ran |-> <<"policy_cls", "TFPolicy">>,
              ret |-> TFPolicy_extra_compute_grad_feed_dict(self)]

\* a method the class body does not define: Python runs the version of the
\* first class of the mro that defines it
InheritedMethod(c, self, m) ==
    [ran |-> <<Resolve(c.mro, m)>>, ret |-> Resolve(c.mro, m) \o "." \o m \o "()"]

\* instance.m(arg): attribute lookup along the mro, then the body found
CallMethod(c, self, m, arg) ==
    IF Resolve(c.mro, m) # "policy_cls" THEN InheritedMethod(c, self, m)
    ELSE CASE m = "postprocess_trajectory" -> postprocess_trajectory(c, self, arg)
           [] m = "optimizer" -> optimizer(c, self, arg)
           [] m = "gradients" -> gradients(c, self, arg)
           [] m = "extra_compute_action_fetches" ->
                  extra_compute_action_fetches(c, self, arg)
           [] m = "extra_compute_action_feed_dict" ->
                  extra_compute_action_feed_dict(c, self, arg)
           [] m = "extra_compute_grad_fetches" ->
                  extra_compute_grad_fetches(c, self, arg)
           [] m = "extra_compute_grad_feed_dict" ->
                  extra_compute_grad_feed_dict(c, self, arg)

\* ------------------------------------------------- policy_cls.__init__
\* variant: the defaults overwrite the caller's values
MergedConfigDefaultsWin(defaults, cfg) == DictUpdate(cfg, defaults)

\* config = dict(get_default_config(), **config)
MergedConfig(defaults, cfg) == DictUpdate(defaults, cfg)

Event(ev) == [ev |-> ev, cfg |-> config]
Log(ev) == events' = Append(events, Event(ev))

\* the callback of the class being instantiated
Callback(param) == cls.closure[param]

\* the caller's config arguments
UserConfigs ==
    {EmptyDict, ("lr" :> "user_lr"), ("lr" :> "user_lr" @@ "batch" :> "user_batch")}

\* the argument sets of the produced classes that get instantiated
PolicyKwargs ==
    {[k EXCEPT !["mixins"] = "L1"] :
        k \in {DefaultKwargs("PolicyA", "F1"), AllProvided("PolicyA", "F1"),
               AllProvided("PolicyA", "F2")}
              \cup {[DefaultKwargs("PolicyA", "F1") EXCEPT ![q] = "F1"] :
                        q \in CallbackParams}}

\* policy_cls(obs_space, action_space, config) is called: Python finds
\* __init__ along the mro and enters it
Construct(c, userConfig) ==
    /\ pc = "idle"
    /\ cls' = c
    /\ args' = [obs_space |-> "obs", action_space |-> "act", config |-> userConfig]
    /\ config' = userConfig
    /\ events' = <<[ev |-> Resolve(c.mro, "__init__") \o ".__init__",
                    cfg |-> userConfig]>>
    /\ pc' = "merge_config"
    /\ UNCHANGED <<attrs, ncalls, last, fetched>>
    /\ UNCHANGED factoryVars

\* if get_default_config: config = dict(get_default_config(), **config)
MergeConfig ==
    /\ pc = "merge_config"
    /\ IF Callback("get_default_config") # "None"
       THEN /\ config' = MergedConfig(FnDict(Callback("get_default_config"),
                                             "get_default_config"), config)
            /\ events' = Append(events, [ev |-> "get_default_config",
                                         cfg |-> config'])
       ELSE UNCHANGED <<config, events>>
    /\ pc' = "before_init"
    /\ UNCHANGED <<cls, args, attrs, ncalls, last, fetched>>
    /\ UNCHANGED factoryVars

\* variant: before_init is never called
BeforeInitNotCalled ==
    /\ pc = "before_init"
    /\ pc' = "base_init"
    /\ UNCHANGED <<cls, args, config, attrs, events, ncalls, last, fetched>>
    /\ UNCHANGED factoryVars

\* if before_init: before_init(self, obs_space, action_space, config)
BeforeInit ==
    /\ pc = "before_init"
    /\ IF Callback("before_init") # "None"
       THEN Log("before_init")
       ELSE UNCHANGED events
    /\ pc' = "base_init"
    /\ UNCHANGED <<cls, args, config, attrs, ncalls, last, fetched>>
    /\ UNCHANGED factoryVars

\* DynamicTFPolicy.__init__(self, obs_space, action_space, config, loss_fn,
\*     ..., before_loss_init=before_loss_init_wrapper, ...) is entered; it
\* sets self.config and builds the action sampler
BaseInitEnter(tfFetches) ==
    /\ pc = "base_init"
    /\ Log("DynamicTFPolicy.__init__")
    /\ attrs' = ("config" :> config @@ "_tf_action_fetches" :> tfFetches)
    /\ pc' = "in_base"
    /\ UNCHANGED <<cls, args, config, ncalls, last, fetched>>
    /\ UNCHANGED factoryVars

\* the base initialisation calls the before_loss_init it was given, with
\* the config it was given
BaseInitCallsWrapper ==
    /\ pc = "in_base"
    /\ pc' = "wrapper"
    /\ UNCHANGED <<cls, args, config, attrs, events, ncalls, last, fetched>>
    /\ UNCHANGED factoryVars

\* before_loss_init_wrapper: if before_loss_init: before_loss_init(...)
WrapperBeforeLossInit ==
    /\ pc = "wrapper"
    /\ IF Callback("before_loss_init") # "None"
       THEN Log("before_loss_init")
       ELSE UNCHANGED events
    /\ pc' = "wrapper_fetches"
    /\ UNCHANGED <<cls, args, config, attrs, ncalls, last, fetched>>
    /\ UNCHANGED factoryVars

\* before_loss_init_wrapper: self._extra_action_fetches = {} or
\* extra_action_fetches_fn(self)
WrapperSetFetches ==
    /\ pc = "wrapper_fetches"
    /\ IF Callback("extra_action_fetches_fn") = "None"
       THEN /\ attrs' = ("_extra_action_fetches" :> EmptyDict) @@ attrs
            /\ UNCHANGED events
       ELSE /\ attrs' = ("_extra_action_fetches" :>
                            FnDict(Callback("extra_action_fetches_fn"),
                                   "extra_action_fetches_fn")) @@ attrs
            /\ Log("extra_action_fetches_fn")
    /\ pc' = "base_rest"
    /\ UNCHANGED <<cls, args, config, ncalls, last, fetched>>
    /\ UNCHANGED factoryVars

\* the base initialisation returns
BaseInitReturns ==
    /\ pc = "base_rest"
    /\ Log("DynamicTFPolicy.__init__ returns")
    /\ pc' = "after_init"
    /\ UNCHANGED <<cls, args, config, attrs, ncalls, last, fetched>>
    /\ UNCHANGED factoryVars

\* if after_init: after_init(self, obs_space, action_space, config)
AfterInit ==
    /\ pc = "after_init"
    /\ IF Callback("after_init") # "None"
       THEN Log("after_init")
       ELSE UNCHANGED events
    /\ pc' = "done"
    /\ UNCHANGED <<cls, args, config, attrs, ncalls, last, fetched>>
    /\ UNCHANGED factoryVars

\* the arguments a caller gives a method
MethodArgs(m) ==
    CASE m = "postprocess_trajectory" -> {"batch1", "batch2"}
      [] m = "gradients" -> {"opt, loss"}
      [] OTHER -> {""}

\* a caller calls instance.m(arg) on the constructed instance
Call(m, arg) ==
    /\ pc = "done"
    /\ ncalls < MaxCalls
    /\ LET r == CallMethod(cls, attrs, m, arg)
       IN  /\ last' = [method |-> m, arg |-> arg, ran |-> r.ran, ret |-> r.ret]
           /\ fetched' = IF m = "extra_compute_action_fetches"
                         THEN Append(fetched, r.ret) ELSE fetched
    /\ ncalls' = ncalls + 1
    /\ UNCHANGED <<cls, pc, args, config, attrs, events>>
    /\ UNCHANGED factoryVars

\* a produced class, after the build_tf_policy call that made it
PolicyInit ==
    /\ \E h \in [ListRefs -> MixinLists], kw \in PolicyKwargs :
           /\ h["L2"] = <<>>
           /\ heap = build_tf_policy(kw, h).heap
           /\ classes = <<build_tf_policy(kw, h).cls>>
           /\ history = <<[parent |-> 0, overrides |-> EmptyDict,
                           passed |-> Contents(kw["mixins"], h)]>>
    /\ PolicyIdle

PolicyNext ==
    \/ \E u \in UserConfigs : Construct(classes[1], u)
    \/ MergeConfig
    \/ BeforeInit
    \/ \E f \in {EmptyDict, ("action_prob" :> "tf_action_prob")} : BaseInitEnter(f)
    \/ BaseInitCallsWrapper
    \/ WrapperBeforeLossInit
    \/ WrapperSetFetches
    \/ BaseInitReturns
    \/ AfterInit
    \/ \E m \in Methods \ {"__init__"} : \E arg \in MethodArgs(m) : Call(m, arg)

PolicySpec == PolicyInit /\ [][PolicyNext]_vars

\* ------------------------------------------------- claims on the factory
Produced == 1..Len(classes)
Derived == {i \in Produced : history[i].parent # 0}
FnParams == CallbackParams \cup {"loss_fn", "obs_include_prev_action_reward"}

\* the classes of an mro that are not the empty new_base helpers
ResolutionOrder(mro) == SelectSeq(mro, LAMBDA c : c # "new_base")

\* the mixins of list that define method m, in list order
Definers(list, m) == SelectSeq(list, LAMBDA c : m \in MixinDefines(c))

\* C1: with_updates() with no overrides returns a class identical to the
\* class it was called on: same mixin chain, same resolution of every
\* method, same name, same callbacks.
C1_EmptyUpdateIdentical ==
    \A i \in Derived :
        history[i].overrides = EmptyDict =>
            LET c == classes[i]
                p == classes[history[i].parent]
            IN  /\ c.name = p.name
                /\ \A q \in FnParams : c.closure[q] = p.closure[q]
                /\ MixinsOf(c.mro) = MixinsOf(p.mro)
                /\ \A m \in Methods : Resolve(c.mro, m) = Resolve(p.mro, m)

\* C7: with_updates(**overrides) returns a class built from the original
\* arguments with exactly the overridden parameters replaced: overridden
\* parameters take the new value, every other parameter (mixins included)
\* keeps the value originally passed.
C7_UpdateReplacesExactly ==
    \A i \in Derived :
        LET c == classes[i]
            p == classes[history[i].parent]
            o == history[i].overrides
        IN  /\ \A q \in (DOMAIN o) \ {"mixins"} : c.closure[q] = o[q]
            /\ c.name = IF "name" \in DOMAIN o THEN o["name"] ELSE p.name
            /\ \A q \in FnParams \ DOMAIN o : c.closure[q] = p.closure[q]
            /\ "mixins" \in DOMAIN o => MixinsOf(c.mro) = history[i].passed
            /\ "mixins" \notin DOMAIN o =>
                   MixinsOf(c.mro) = history[history[i].parent].passed

\* C8: mixins are applied in list order: the resolution order of a produced
\* class is the class itself, then M1, ..., Mn as listed, then
\* DynamicTFPolicy and its bases; a method that mixins define and the class
\* body does not is resolved to the earliest mixin of the list defining it.
C8_MixinsInListOrder ==
    \A i \in Produced :
        LET mro == classes[i].mro
            list == history[i].passed
        IN  /\ ResolutionOrder(mro) = <<"policy_cls">> \o list \o BaseMro
            /\ \A m \in Methods \ PolicyClsDefines :
                   Definers(list, m) # <<>> =>
                       Resolve(mro, m) = Head(Definers(list, m))

C8_Witness ==
    \E i \in Produced :
        /\ Len(history[i].passed) >= 2
        /\ Len(Definers(history[i].passed, "get_weights")) >= 2
        /\ Resolve(classes[i].mro, "get_weights") = history[i].passed[1]

\* C10: build_tf_policy consumes the mixins list: after the call the list
\* object is empty; with_updates passes the same (emptied) list object on;
\* a later call with the same list object yields a class with no mixins.
C10_MixinsListConsumed ==
    \A i \in Produced :
        LET ref == classes[i].original_kwargs["mixins"]
        IN  /\ ref # "None" => heap[ref] = <<>>
            /\ \A j \in Produced :
                   (j > i /\ ref # "None"
                      /\ classes[j].original_kwargs["mixins"] = ref)
                       => MixinsOf(classes[j].mro) = <<>>
            /\ (i \in Derived /\ "mixins" \notin DOMAIN history[i].overrides)
                   => ref = classes[history[i].parent].original_kwargs["mixins"]

C10_Witness ==
    \E i, j \in Produced :
        /\ history[j].parent = i
        /\ "mixins" \notin DOMAIN history[j].overrides
        /\ history[i].passed # <<>>
        /\ MixinsOf(classes[i].mro) = history[i].passed
        /\ MixinsOf(classes[j].mro) = <<>>
        /\ \E k \in Produced :
               /\ k # j /\ k > i /\ history[k].parent = 0
               /\ classes[k].original_kwargs["mixins"]
                      = classes[i].original_kwargs["mixins"]
               /\ MixinsOf(classes[k].mro) = <<>>

\* ------------------------------------------------ claims on the instances
\* the factory parameter behind each method of the class body
MethodParam(m) ==
    CASE m = "postprocess_trajectory" -> "postprocess_fn"
      [] m = "optimizer" -> "optimizer_fn"
      [] m = "gradients" -> "gradients_fn"
      [] m = "extra_compute_action_fetches" -> "extra_action_fetches_fn"
      [] m = "extra_compute_action_feed_dict" -> "extra_action_feed_fn"
      [] m = "extra_compute_grad_fetches" -> "extra_learn_fetches_fn"
      [] m = "extra_compute_grad_feed_dict" -> "extra_learn_feed_fn"

DispatchMethods == PolicyClsDefines \ {"__init__"}
ObjectMethods == {"postprocess_trajectory", "optimizer", "gradients"}

\* what the user function behind method m returns
FnReturn(m, fn, arg) ==
    CASE m = "optimizer" -> FnObject(fn, "optimizer_fn", "self.config")
      [] m \in {"postprocess_trajectory", "gradients"} ->
             FnObject(fn, MethodParam(m), arg)
      [] OTHER -> FnDict(fn, MethodParam(m))

\* what TFPolicy's (for postprocess_trajectory: the identity) version returns
BaseReturn(m, self, arg) ==
    CASE m = "postprocess_trajectory" -> arg
      [] m = "optimizer" -> TFPolicy_optimizer(self)
      [] m = "gradients" -> TFPolicy_gradients(self, arg)
      [] m = "extra_compute_action_fetches" ->
             TFPolicy_extra_compute_action_fetches(self)
      [] m = "extra_compute_action_feed_dict" ->
             TFPolicy_extra_compute_action_feed_dict(self)
      [] m = "extra_compute_grad_fetches" ->
             TFPolicy_extra_compute_grad_fetches(self)
      [] m = "extra_compute_grad_feed_dict" ->
             TFPolicy_extra_compute_grad_feed_dict(self)

Provided(m) == last.method = m /\ Callback(MethodParam(m)) # "None"
Unset(m) == last.method = m /\ Callback(MethodParam(m)) = "None"

InstanceMixins == MixinsOf(cls.mro)
EventNames == [i \in 1..Len(events) |-> events[i].ev]
Occurs(ev) == \E i \in 1..Len(events) : events[i].ev = ev
Count(ev) == Len(SelectSeq(events, LAMBDA e : e.ev = ev))
Ran(c) == \E i \in 1..Len(last.ran) : last.ran[i] = c

\* C2: a method that a mixin defines and the base defines too runs the
\* mixin's version on an instance of the produced class, __init__ and the
\* methods of the class body included.
C2_MixinVersionRuns ==
    /\ \A m \in Methods \ {"__init__"} :
           (last.method = m /\ Definers(InstanceMixins, m) # <<>>)
               => Ran(Head(Definers(InstanceMixins, m)))
    /\ (pc = "done" /\ Definers(InstanceMixins, "__init__") # <<>>)
           => Occurs(Head(Definers(InstanceMixins, "__init__")) \o ".__init__")

\* C3: with the callback provided, each of the seven methods returns exactly
\* the callback's result, no key added, removed or replaced.
C3_ReturnsExactlyFnResult ==
    \A m \in DispatchMethods :
        Provided(m) => last.ret = FnReturn(m, Callback(MethodParam(m)), last.arg)

\* C3 as amended: postprocess_trajectory, optimizer, gradients and the two
\* feed-dict methods return exactly the callback's result;
\* extra_compute_grad_fetches returns the callback's dict plus the learner
\* stats key with an empty dict when the callback's dict lacks that key;
\* extra_compute_action_fetches returns the dict the callback returned
\* during initialisation plus the keys of TFPolicy's action fetches that
\* the callback's dict lacks.
C3_ReturnsFnResultOrOverlay ==
    \A m \in DispatchMethods :
        Provided(m) =>
            LET r == FnReturn(m, Callback(MethodParam(m)), last.arg)
                under == CASE m = "extra_compute_grad_fetches" ->
                                  (LEARNER_STATS_KEY :> "{}")
                           [] m = "extra_compute_action_fetches" ->
                                  TFPolicy_extra_compute_action_fetches(attrs)
                           [] OTHER -> EmptyDict
            IN  IF m \in ObjectMethods THEN last.ret = r
                ELSE /\ DOMAIN last.ret = (DOMAIN r) \cup (DOMAIN under)
                     /\ \A k \in DOMAIN r : last.ret[k] = r[k]
                     /\ \A k \in (DOMAIN under) \ (DOMAIN r) :
                            last.ret[k] = under[k]

C3_Witness ==
    /\ Provided("extra_compute_grad_fetches")
    /\ LEARNER_STATS_KEY \notin
           DOMAIN FnDict(Callback("extra_learn_fetches_fn"), "extra_learn_fetches_fn")
    /\ LEARNER_STATS_KEY \in DOMAIN last.ret
    /\ last.ret["td_error"] = "F2"

InitOrder ==
    <<"policy_cls.__init__", "get_default_config", "before_init",
      "DynamicTFPolicy.__init__", "before_loss_init",
      "extra_action_fetches_fn", "DynamicTFPolicy.__init__ returns",
      "after_init">>

AllHooksProvided ==
    \A q \in {"get_default_config", "before_init", "before_loss_init",
              "extra_action_fetches_fn", "after_init"} : Callback(q) # "None"

C5_InitOrder ==
    (pc # "idle" /\ AllHooksProvided) =>
        /\ Len(events) <= Len(InitOrder)
        /\ EventNames = SubSeq(InitOrder, 1, Len(events))
        /\ pc = "done" => Len(events) = Len(InitOrder)
        /\ pc \in {"merge_config", "before_init"} =>
               ~Occurs("DynamicTFPolicy.__init__")
        /\ Occurs("after_init") => Occurs("DynamicTFPolicy.__init__ returns")

C5_Witness ==
    /\ pc = "done"
    /\ AllHooksProvided
    /\ EventNames = InitOrder

\* C6: with get_default_config the constructor's config is the defaults
\* overlaid with the caller's config (the caller's value wins, keys only in
\* the defaults keep the default), and before_init, the base initialisation
\* and after_init receive that config; without get_default_config the
\* caller's config is used unchanged.
C6_ConfigMerged ==
    pc \notin {"idle", "merge_config"} =>
        LET user == args.config
            g == Callback("get_default_config")
            d == FnDict(g, "get_default_config")
        IN  /\ g # "None" =>
                   /\ DOMAIN config = (DOMAIN d) \cup (DOMAIN user)
                   /\ \A k \in DOMAIN user : config[k] = user[k]
                   /\ \A k \in (DOMAIN d) \ (DOMAIN user) : config[k] = d[k]
            /\ g = "None" => config = user
            /\ \A i \in 1..Len(events) :
                   events[i].ev \in {"before_init", "DynamicTFPolicy.__init__",
                                     "after_init"}
                       => events[i].cfg = config

C6_Witness ==
    /\ pc = "done"
    /\ Callback("get_default_config") # "None"
    /\ "lr" \in DOMAIN args.config
    /\ config["lr"] = "user_lr"
    /\ config["gamma"] = "default_gamma"
    /\ Occurs("before_init") /\ Occurs("after_init")

\* C9: extra_action_fetches_fn is called once per instance, in the wrapper
\* after before_loss_init, and never by a later method call; every call of
\* extra_compute_action_fetches returns the same dict; without the callback
\* the stored dict is empty.
C9_FetchesPopulatedOnce ==
    pc # "idle" =>
        LET fn == Callback("extra_action_fetches_fn")
        IN  /\ Count("extra_action_fetches_fn") <= 1
            /\ pc \in {"base_rest", "after_init", "done"} =>
                   /\ Count("extra_action_fetches_fn") = IF fn = "None" THEN 0 ELSE 1
                   /\ attrs["_extra_action_fetches"] =
                          IF fn = "None" THEN EmptyDict
                          ELSE FnDict(fn, "extra_action_fetches_fn")
            /\ \A i, j \in 1..Len(events) :
                   (events[i].ev = "extra_action_fetches_fn"
                      /\ events[j].ev \in {"before_loss_init",
                                           "DynamicTFPolicy.__init__"}) => j < i
            /\ ~Ran("extra_action_fetches_fn")
            /\ \A i, j \in 1..Len(fetched) : fetched[i] = fetched[j]

C9_Witness ==
    /\ pc = "done"
    /\ Callback("extra_action_fetches_fn") # "None"
    /\ Count("extra_action_fetches_fn") = 1
    /\ Len(fetched) >= 2
    /\ fetched[1] = fetched[2]
    /\ "vf_preds" \in DOMAIN fetched[1]

====
